---- MODULE Spec2Model ----
(***************************************************************************)
(* Panel-version reconciliation engine of VIMMO: the relational store      *)
(* (panel, panel_genes, panel_genes_archive), the PanelApp registry, and   *)
(* the request handlers that reconcile or downgrade a panel.  Every        *)
(* request runs on its own sqlite3 connection (vimmo/API/__init__.py       *)
(* get_db): a connection sees its own uncommitted writes, the other        *)
(* connections see the committed tables only, and one connection at a time *)
(* holds the write lock.                                                   *)
(***************************************************************************)
EXTENDS Integers, Sequences, FiniteSets, TLC

\* ------------------------------------------------------------------ bounds
MaxVersion == 3
MaxPayload == 2
MaxRequests == 3
MaxOverlap == 2
MaxDay == 2
MaxRows == 2

Versions == 1..MaxVersion
Genes == {"HGNC:1", "HGNC:2"}
GeneOrder == <<"HGNC:1", "HGNC:2">>
Confs == {2, 3}
Procs == {"a", "b"}

\* the panel the requests are about, and a second panel nobody asks for
TheRcode == "R1"
ThePanel == "P1"
OtherRcode == "R2"
OtherPanel == "P2"

None == "None"
\* what get_db_latest_version returns for an unknown Rcode (python None)
NoVersion == 0
\* what get_latest_online_version returns when the answer holds no version
KeyErrorObject == 0 - 1
EmptyDict == [g \in {} |-> 0]
\* str(None), the text add_record stores as the Version of an unknown Rcode
NoneText == 0 - 2
\* the False that check_presence returns
PyFalse == 0 - 3

\* the patients and the Rcodes the record requests name; UnknownRcode has no
\* row in panel
Patients == {"pt1", "pt2"}
UnknownRcode == "R9"
Rcodes == {TheRcode, OtherRcode, UnknownRcode}

\* the confidence level of the genes in the releases signed off after the
\* store was built
ReleaseConfs == {3}

\* gene -> confidence mappings (python dicts) a release can hold
Mappings == UNION {[S -> ReleaseConfs] : S \in SUBSET Genes}

\* ------------------------------------------------------------ pure helpers
RECURSIVE SeqFilter(_, _)
\* rows of a table, in rowid order, restricted to a set of row values
SeqFilter(rows, keep) ==
    IF rows = <<>> THEN <<>>
    ELSE IF Head(rows) \in keep THEN <<Head(rows)>> \o SeqFilter(Tail(rows), keep)
         ELSE SeqFilter(Tail(rows), keep)

Range(s) == {s[i] : i \in DOMAIN s}

RECURSIVE RowsToDict(_)
\* "for tuple in rows: data.update({tuple[HGNC_ID]: tuple[Confidence]})"
RowsToDict(rows) ==
    IF rows = <<>> THEN EmptyDict
    ELSE LET n == Len(rows)
             d == RowsToDict(SubSeq(rows, 1, n - 1))
             r == rows[n]
         IN [g \in (DOMAIN d) \cup {r.HGNC_ID} |->
                IF g = r.HGNC_ID THEN r.Confidence ELSE d[g]]

RECURSIVE DictItems(_, _)
\* the (key, value) pairs of a dict in iteration order
DictItems(m, order) ==
    IF order = <<>> THEN <<>>
    ELSE IF Head(order) \in DOMAIN m
         THEN <<[HGNC_ID |-> Head(order), Confidence |-> m[Head(order)]]>>
                  \o DictItems(m, Tail(order))
         ELSE DictItems(m, Tail(order))

\* ------------------------------------------------------------------- Query
\* column = ? in a WHERE clause: never true of NULL, on either side
SqlEq(column, bound) == column # None /\ bound # None /\ column = bound

get_db_latest_version(d, Rcode) ==
    IF Rcode \in DOMAIN d.panel THEN d.panel[Rcode].Version ELSE NoVersion

rcode_to_panelID(d, Rcode) ==
    IF Rcode \in DOMAIN d.panel THEN d.panel[Rcode].Panel_ID ELSE None

current_panel_contents(d, panelID) ==
    RowsToDict(SeqFilter(d.panel_genes,
                         {r \in Range(d.panel_genes) : SqlEq(r.Panel_ID, panelID)}))

historic_panel_retrieval(d, panelID, version) ==
    RowsToDict(SeqFilter(d.panel_genes_archive,
                         {r \in Range(d.panel_genes_archive) :
                             r.Panel_ID = panelID /\ r.Version = version}))

\* the characters of the identifiers a search can name
Chars ==
    ("P1" :> <<"P", "1">>) @@ ("P2" :> <<"P", "2">>) @@ ("P9" :> <<"P", "9">>)
    @@ ("P" :> <<"P">>)
    @@ ("R1" :> <<"R", "1">>) @@ ("R2" :> <<"R", "2">>) @@ ("R9" :> <<"R", "9">>)
    @@ ("R" :> <<"R">>)

\* value LIKE '%q%'
Like(value, q) ==
    \E i \in 1..Len(Chars[value]) : \E j \in i..Len(Chars[value]) :
        SubSeq(Chars[value], i, j) = Chars[q]

RcodeOrder == <<TheRcode, OtherRcode>>

RECURSIVE JoinRows(_, _, _)
\* FROM panel JOIN panel_genes ON panel.Panel_ID = panel_genes.Panel_ID
\*            JOIN genes_info ON panel_genes.HGNC_ID = genes_info.HGNC_ID
\* over the panel_genes rows from the i-th on, for the panel rows in keep
JoinRows(d, keep, i) ==
    IF i > Len(d.panel_genes) THEN <<>>
    ELSE LET pg == d.panel_genes[i]
             of_row == SeqFilter(RcodeOrder,
                          {rc \in (DOMAIN d.panel) \cap keep :
                              /\ d.panel[rc].Panel_ID = pg.Panel_ID
                              /\ pg.HGNC_ID \in d.genes_info})
         IN [k \in 1..Len(of_row) |->
                [Panel_ID |-> pg.Panel_ID, rcodes |-> of_row[k],
                 Version |-> d.panel[of_row[k]].Version,
                 Confidence |-> pg.Confidence, HGNC_ID |-> pg.HGNC_ID]]
            \o JoinRows(d, keep, i + 1)

\* get_panel_data returning the empty record list instead of the message
get_panel_data_no_message(d, panel_id, matches) ==
    LET keep == {rc \in DOMAIN d.panel :
                    IF matches THEN Like(d.panel[rc].Panel_ID, panel_id)
                    ELSE d.panel[rc].Panel_ID = panel_id}
        result == JoinRows(d, keep, 1)
    IN [Panel_ID |-> panel_id, Associated_Gene_Records |-> result]

get_panel_data(d, panel_id, matches) ==
    LET keep == {rc \in DOMAIN d.panel :
                    IF matches THEN Like(d.panel[rc].Panel_ID, panel_id)
                    ELSE d.panel[rc].Panel_ID = panel_id}
        result == JoinRows(d, keep, 1)
    IN IF result # <<>>
       THEN [Panel_ID |-> panel_id, Associated_Gene_Records |-> result]
       ELSE [Panel_ID |-> panel_id, Message |-> "No matches found."]

get_panels_by_rcode(d, rcode, matches) ==
    LET keep == {rc \in DOMAIN d.panel :
                    IF matches THEN Like(rc, rcode) ELSE rc = rcode}
        result == JoinRows(d, keep, 1)
    IN IF result # <<>>
       THEN [Rcode |-> rcode, Associated_Gene_Records |-> result]
       ELSE [Rcode |-> rcode, Message |-> "No matches found for this rcode."]

\* matches = True raises NotImplementedError
get_panels_from_gene_list(d, hgnc_ids, matches) ==
    IF matches THEN [raised |-> "NotImplementedError"]
    ELSE LET all == JoinRows(d, DOMAIN d.panel, 1)
             result == SeqFilter(all, {r \in Range(all) : r.HGNC_ID \in Range(hgnc_ids)})
         IN IF result # <<>>
            THEN [HGNC_IDs |-> hgnc_ids, Panels |-> result]
            ELSE [HGNC_IDs |-> hgnc_ids,
                  Message |-> "Could not find any match for the provided HGNC IDs."]

\* get_gene_list(panel_id): the HGNC_IDs of the panel's records, or the
\* not-found result of get_panel_data
get_gene_list(d, panel_id) ==
    LET panel_data == get_panel_data(d, panel_id, FALSE)
    IN IF "Message" \in DOMAIN panel_data THEN panel_data
       ELSE {record.HGNC_ID : record \in Range(panel_data.Associated_Gene_Records)}

\* compare_panel_versions reporting a confidence change as (new, old)
compare_panel_versions_swapped(historic_version, current_version) ==
    LET genes_added ==
          [g \in {x \in DOMAIN current_version : x \notin DOMAIN historic_version}
              |-> current_version[g]]
        genes_removed ==
          [g \in {x \in DOMAIN historic_version : x \notin DOMAIN current_version}
              |-> historic_version[g]]
        conf_changes ==
          [g \in {x \in DOMAIN current_version :
                     /\ x \in DOMAIN historic_version
                     /\ current_version[x] # historic_version[x]}
              |-> <<current_version[g], historic_version[g]>>]
    IN <<genes_added, genes_removed, conf_changes>>

compare_panel_versions(historic_version, current_version) ==
    LET genes_added ==
          [g \in {x \in DOMAIN current_version : x \notin DOMAIN historic_version}
              |-> current_version[g]]
        genes_removed ==
          [g \in {x \in DOMAIN historic_version : x \notin DOMAIN current_version}
              |-> historic_version[g]]
        conf_changes ==
          [g \in {x \in DOMAIN current_version :
                     /\ x \in DOMAIN historic_version
                     /\ current_version[x] # historic_version[x]}
              |-> <<historic_version[g], current_version[g]>>]
    IN <<genes_added, genes_removed, conf_changes>>

\* ------------------------------------------------------------------ Update
\* UPDATE panel SET Version = ? WHERE Panel_ID = ? AND rcodes = ?
update_panels_version(d, rcode, new_version, panel_id) ==
    [d EXCEPT !.panel =
        [rc \in DOMAIN d.panel |->
            IF rc = rcode /\ SqlEq(d.panel[rc].Panel_ID, panel_id)
            THEN [d.panel[rc] EXCEPT !.Version = new_version]
            ELSE d.panel[rc]]]

\* archive_panel_contents without its NOT EXISTS clause
archive_panel_contents_unguarded(d, panel_id, archive_version) ==
    LET src == SeqFilter(d.panel_genes,
                         {r \in Range(d.panel_genes) : SqlEq(r.Panel_ID, panel_id)})
        new == [i \in 1..Len(src) |->
                  [Panel_ID |-> src[i].Panel_ID, HGNC_ID |-> src[i].HGNC_ID,
                   Version |-> archive_version, Confidence |-> src[i].Confidence]]
    IN [d EXCEPT !.panel_genes_archive = d.panel_genes_archive \o new]

\* INSERT INTO panel_genes_archive SELECT ... FROM panel_genes pg
\* WHERE pg.Panel_ID = ? AND NOT EXISTS (archived row of that gene and version);
\* the SELECT is evaluated on the archive as it is before the statement
archive_panel_contents(d, panel_id, archive_version) ==
    LET sel == {r \in Range(d.panel_genes) :
                  /\ SqlEq(r.Panel_ID, panel_id)
                  /\ ~ \E a \in Range(d.panel_genes_archive) :
                         /\ a.Panel_ID = r.Panel_ID
                         /\ a.HGNC_ID = r.HGNC_ID
                         /\ a.Version = archive_version}
        src == SeqFilter(d.panel_genes, sel)
        new == [i \in 1..Len(src) |->
                  [Panel_ID |-> src[i].Panel_ID, HGNC_ID |-> src[i].HGNC_ID,
                   Version |-> archive_version, Confidence |-> src[i].Confidence]]
    IN [d EXCEPT !.panel_genes_archive = d.panel_genes_archive \o new]

\* DELETE FROM panel_genes WHERE Panel_ID = ?
delete_panel_genes(d, panel_id) ==
    [d EXCEPT !.panel_genes =
        SeqFilter(d.panel_genes,
                  {r \in Range(d.panel_genes) : ~SqlEq(r.Panel_ID, panel_id)})]

\* INSERT INTO panel_genes (Panel_ID, HGNC_ID, Confidence) VALUES (?, ?, ?), per row
insert_panel_genes(d, panel_id, rows) ==
    [d EXCEPT !.panel_genes =
        d.panel_genes \o
        [i \in 1..Len(rows) |->
            [Panel_ID |-> panel_id, HGNC_ID |-> rows[i].HGNC_ID,
             Confidence |-> rows[i].Confidence]]]

\* ------------------------------------------------------------ patient_data
\* str(version) as check_presence and add_record apply it
Str(v) == IF v = NoVersion THEN NoneText ELSE v

\* check_presence without "AND Version = ?"
check_presence_any_version(d, patient_id, rcode) ==
    LET current_version == Str(get_db_latest_version(d, rcode))
        does_exists == {r \in Range(d.patient_data) :
                          /\ r.Patient_ID = patient_id
                          /\ r.Rcode = rcode}
    IN IF does_exists # {} THEN current_version ELSE PyFalse

\* SELECT Version FROM patient_data WHERE Patient_ID = ? AND Rcode = ? AND
\* Version = ?, for the stored version: that version, or False
check_presence(d, patient_id, rcode) ==
    LET current_version == Str(get_db_latest_version(d, rcode))
        does_exists == {r \in Range(d.patient_data) :
                          /\ r.Patient_ID = patient_id
                          /\ r.Rcode = rcode
                          /\ r.Version = current_version}
    IN IF does_exists # {} THEN current_version ELSE PyFalse

\* add_record as INSERT OR REPLACE keyed by (Patient_ID, Rcode)
add_record_replaces(d, patient_id, rcode, date_today) ==
    [d EXCEPT !.patient_data =
        Append(SeqFilter(d.patient_data,
                         {r \in Range(d.patient_data) :
                             ~ (r.Patient_ID = patient_id /\ r.Rcode = rcode)}),
               [Patient_ID |-> patient_id,
                Panel_ID |-> rcode_to_panelID(d, rcode),
                Rcode |-> rcode,
                Version |-> Str(get_db_latest_version(d, rcode)),
                Date |-> date_today])]

\* INSERT INTO patient_data VALUES (patient_id, panel_id, rcode, version, date_today)
add_record(d, patient_id, rcode, date_today) ==
    [d EXCEPT !.patient_data =
        Append(d.patient_data,
               [Patient_ID |-> patient_id,
                Panel_ID |-> rcode_to_panelID(d, rcode),
                Rcode |-> rcode,
                Version |-> Str(get_db_latest_version(d, rcode)),
                Date |-> date_today])]

\* MAX(...) of a non-empty set of values
SqlMax(S) == CHOOSE x \in S : \A y \in S : y <= x

\* check_patient_history keeping the rows of the most recent Date only, as the
\* query without its "AND Version = (SELECT MAX(Version) ...)"
check_patient_history_any_version(d, Patient_id, Rcode) ==
    LET mine == {r \in Range(d.patient_data) :
                    r.Patient_ID = Patient_id /\ r.Rcode = Rcode}
    IN IF mine = {} THEN NoVersion
       ELSE LET max_date == SqlMax({r.Date : r \in mine})
                rows == SeqFilter(d.patient_data,
                           {r \in Range(d.patient_data) :
                               /\ r.Date = max_date
                               /\ r.Patient_ID = Patient_id
                               /\ r.Rcode = Rcode})
            IN IF rows = <<>> THEN NoVersion ELSE rows[1].Version

\* SELECT Version FROM patient_data WHERE Date = (SELECT MAX(Date) ...) AND
\* Version = (SELECT MAX(Version) ... of that Date) AND Patient_ID = ? AND
\* Rcode = ?, first row; None when there is none
check_patient_history(d, Patient_id, Rcode) ==
    LET mine == {r \in Range(d.patient_data) :
                    r.Patient_ID = Patient_id /\ r.Rcode = Rcode}
    IN IF mine = {} THEN NoVersion
       ELSE LET max_date == SqlMax({r.Date : r \in mine})
                max_version == SqlMax({r.Version : r \in {q \in mine : q.Date = max_date}})
                rows == SeqFilter(d.patient_data,
                           {r \in Range(d.patient_data) :
                               /\ r.Date = max_date
                               /\ r.Version = max_version
                               /\ r.Patient_ID = Patient_id
                               /\ r.Rcode = Rcode})
            IN IF rows = <<>> THEN NoVersion ELSE rows[1].Version

\* --------------------------------------------------------------- Downgrade
RECURSIVE return_all_patients_rows(_)
\* "for record in rows: rcode_records.update({record["Date"]: [Patient_ID, Version]})"
return_all_patients_rows(rows) ==
    IF rows = <<>> THEN EmptyDict
    ELSE LET n == Len(rows)
             d == return_all_patients_rows(SubSeq(rows, 1, n - 1))
             r == rows[n]
         IN [dt \in (DOMAIN d) \cup {r.Date} |->
                IF dt = r.Date THEN <<r.Patient_ID, r.Version>> ELSE d[dt]]

\* SELECT Patient_ID, Version, Date FROM patient_data WHERE Rcode = ?
return_all_patients(d, Rcode) ==
    return_all_patients_rows(
        SeqFilter(d.patient_data, {r \in Range(d.patient_data) : r.Rcode = Rcode}))

\* a payload entry without a "confidence_level" key
NoConfidence == 0 - 1

\* _extract_genes_from_records without the default of gene.get: an entry
\* without a confidence level keeps the missing value
_extract_genes_from_records_no_default(panel_records) ==
    SeqFilter(panel_records, {e \in Range(panel_records) : e.HGNC_ID # None})

\* the entries that carry a gene identifier, as (HGNC_ID, Confidence) pairs
\* in payload order; a missing confidence level counts as 0
_extract_genes_from_records(panel_records) ==
    LET with_id == SeqFilter(panel_records,
                             {e \in Range(panel_records) : e.HGNC_ID # None})
    IN [i \in 1..Len(with_id) |->
           [HGNC_ID |-> with_id[i].HGNC_ID,
            Confidence |-> IF with_id[i].Confidence = NoConfidence THEN 0
                           ELSE with_id[i].Confidence]]

_get_current_genes(d, panel_id) ==
    RowsToDict(SeqFilter(d.panel_genes,
                         {r \in Range(d.panel_genes) : SqlEq(r.Panel_ID, panel_id)}))

\* UPDATE panel SET Version = ? WHERE Panel_ID = ? AND rcodes = ?
change_panels_version(d, rcode, new_version, panel_id) ==
    [d EXCEPT !.panel =
        [rc \in DOMAIN d.panel |->
            IF rc = rcode /\ d.panel[rc].Panel_ID = panel_id
            THEN [d.panel[rc] EXCEPT !.Version = new_version]
            ELSE d.panel[rc]]]

\* cursor.rowcount of that UPDATE
change_panels_version_rowcount(d, rcode, panel_id) ==
    Cardinality({rc \in DOMAIN d.panel :
                    rc = rcode /\ d.panel[rc].Panel_ID = panel_id})

\* change_gene_contents_result comparing against the new genes as if they were
\* the current ones: added and removed change places, and so do old and new
change_gene_contents_result_swapped(d, panel_id, new_genes) ==
    LET current_genes == RowsToDict(new_genes)
        new_gene_dict == _get_current_genes(d, panel_id)
        added_genes == {g \in DOMAIN new_gene_dict : g \notin DOMAIN current_genes}
        removed_genes == {g \in DOMAIN current_genes : g \notin DOMAIN new_gene_dict}
        confidence_changes ==
            [g \in {x \in DOMAIN current_genes :
                       x \in DOMAIN new_gene_dict
                       /\ current_genes[x] # new_gene_dict[x]}
                |-> [old_confidence |-> current_genes[g],
                     new_confidence |-> new_gene_dict[g]]]
    IN IF added_genes = {} /\ removed_genes = {} /\ DOMAIN confidence_changes = {}
       THEN [message |-> "No changes detected between versions",
             added |-> {}, removed |-> {}, confidence_changed |-> EmptyDict]
       ELSE [message |-> None, added |-> added_genes, removed |-> removed_genes,
             confidence_changed |-> confidence_changes]

\* what change_gene_contents returns: the message of an empty delta, or the
\* added, removed and confidence_changed lists
change_gene_contents_result(d, panel_id, new_genes) ==
    LET current_genes == _get_current_genes(d, panel_id)
        new_gene_dict == RowsToDict(new_genes)
        added_genes == {g \in DOMAIN new_gene_dict : g \notin DOMAIN current_genes}
        removed_genes == {g \in DOMAIN current_genes : g \notin DOMAIN new_gene_dict}
        confidence_changes ==
            [g \in {x \in DOMAIN current_genes :
                       x \in DOMAIN new_gene_dict
                       /\ current_genes[x] # new_gene_dict[x]}
                |-> [old_confidence |-> current_genes[g],
                     new_confidence |-> new_gene_dict[g]]]
    IN IF added_genes = {} /\ removed_genes = {} /\ DOMAIN confidence_changes = {}
       THEN [message |-> "No changes detected between versions",
             added |-> {}, removed |-> {}, confidence_changed |-> EmptyDict]
       ELSE [message |-> None, added |-> added_genes, removed |-> removed_genes,
             confidence_changed |-> confidence_changes]

\* change_gene_contents without its "no changes" return
change_gene_contents_rewrites(d, panel_id, new_genes) ==
    insert_panel_genes(delete_panel_genes(d, panel_id), panel_id, new_genes)

\* new_genes is the list of (HGNC_ID, Confidence) pairs extracted from the payload
change_gene_contents(d, panel_id, new_genes) ==
    LET current_genes == _get_current_genes(d, panel_id)
        new_gene_dict == RowsToDict(new_genes)
        added_genes == {g \in DOMAIN new_gene_dict : g \notin DOMAIN current_genes}
        removed_genes == {g \in DOMAIN current_genes : g \notin DOMAIN new_gene_dict}
        confidence_changes ==
            {g \in DOMAIN current_genes :
                g \in DOMAIN new_gene_dict /\ current_genes[g] # new_gene_dict[g]}
    IN IF added_genes = {} /\ removed_genes = {} /\ confidence_changes = {}
       THEN d
       ELSE insert_panel_genes(delete_panel_genes(d, panel_id), panel_id, new_genes)

\* ----------------------------------------------------------- weekly_update
\* update_or_insert_panel_versions for one entry (panel_id, latest_version) of
\* latest_versions; latest_genes is what fetch_latest_version_genes returned,
\* the empty list when its request failed. A panel the store does not hold is
\* inserted without a test code.
update_or_insert_panel_versions(d, panel_id, latest_version, latest_genes) ==
    LET existing == {rc \in DOMAIN d.panel : SqlEq(d.panel[rc].Panel_ID, panel_id)}
    IN IF existing # {}
       THEN LET existing_version == d.panel[CHOOSE rc \in existing : TRUE].Version
                src == SeqFilter(d.panel_genes,
                          {r \in Range(d.panel_genes) : SqlEq(r.Panel_ID, panel_id)})
                archived == [i \in 1..Len(src) |->
                               [Panel_ID |-> src[i].Panel_ID, HGNC_ID |-> src[i].HGNC_ID,
                                Version |-> existing_version,
                                Confidence |-> src[i].Confidence]]
            IN IF existing_version # latest_version
               THEN insert_panel_genes(
                        delete_panel_genes(
                            [d EXCEPT
                                !.panel_genes_archive = d.panel_genes_archive \o archived,
                                !.panel = [rc \in DOMAIN d.panel |->
                                             IF rc \in existing
                                             THEN [d.panel[rc] EXCEPT !.Version = latest_version]
                                             ELSE d.panel[rc]]],
                            panel_id),
                        panel_id, latest_genes)
               ELSE d
       ELSE insert_panel_genes(
                [d EXCEPT !.panel =
                    d.panel @@ (None :> [Panel_ID |-> panel_id, Version |-> latest_version])],
                panel_id, latest_genes)

\* ------------------------------------------------------------------- state
VARIABLES
    db,         \* the committed tables: panel, panel_genes, panel_genes_archive
    txn,        \* the open write transaction: its connection and its working copy
    registry,   \* PanelApp: the signed-off version and the gene list it serves
    pc,         \* per request connection: position in its handler
    loc,        \* per request connection: the handler's local variables
    served,     \* number of requests received so far
    cmp,        \* arguments and result of a compare_panel_versions call
    today       \* date.today()

vars == <<db, txn, registry, pc, loc, served, cmp, today>>

NoTxn == [owner |-> None, db |-> None]

IdleLoc ==
    [kind |-> None, panel_id |-> None, database_version |-> NoVersion,
     latest_online_version |-> NoVersion, version |-> NoVersion, genes |-> None,
     disclaimer |-> None, status |-> None,
     patient_id |-> None, rcode |-> None, is_present |-> PyFalse,
     patient_history |-> NoVersion, changes |-> None, panel_records |-> None,
     hgnc_ids |-> <<>>, matches |-> FALSE, panel_data |-> None,
     patients_list |-> None,
     pre |-> None,        \* history: the committed tables when the request began
     fetched |-> None,    \* history: the registry's gene list when its version was read
     replaced |-> None,   \* history: the panel's contents when the DELETE ran
     discarded |-> None]  \* history: the working copy a ROLLBACK threw away

NoCmp == [old |-> EmptyDict, new |-> EmptyDict, called |-> FALSE, out |-> <<>>]

\* what a statement run on connection p reads
View(p) == IF txn.owner = p THEN txn.db ELSE db

\* sqlite lets one connection write at a time; the others wait for its commit
CanWrite(p) == txn.owner \in {None, p}

InitPanelGenes(m) ==
    [i \in 1..Len(DictItems(m, GeneOrder)) |->
        [Panel_ID |-> ThePanel, HGNC_ID |-> DictItems(m, GeneOrder)[i].HGNC_ID,
         Confidence |-> DictItems(m, GeneOrder)[i].Confidence]]
    \o <<[Panel_ID |-> OtherPanel, HGNC_ID |-> "HGNC:1", Confidence |-> 3]>>

InitDb(m) ==
    [panel |-> (TheRcode :> [Panel_ID |-> ThePanel, Version |-> 1])
                 @@ (OtherRcode :> [Panel_ID |-> OtherPanel, Version |-> 1]),
     panel_genes |-> InitPanelGenes(m),
     panel_genes_archive |-> <<>>,
     patient_data |-> <<>>,
     genes_info |-> {r.HGNC_ID : r \in Range(InitPanelGenes(m))}]

\* the panel as first stored: genes {HGNC:1: 2}
InitGenes == ("HGNC:1" :> 2)

\* the store as built from the registry at version 1
Init ==
    /\ db = InitDb(InitGenes)
    /\ registry = [version |-> 1, genes |-> InitGenes]
    /\ txn = NoTxn
    /\ pc = [p \in Procs |-> "idle"]
    /\ loc = [p \in Procs |-> IdleLoc]
    /\ served = 0
    /\ cmp = NoCmp
    /\ today = 1

\* ---------------------------------------------------------------- registry
\* a new version of the panel is signed off upstream
RegistryChange ==
    /\ registry.version < MaxVersion
    /\ \E m \in Mappings :
          registry' = [version |-> registry.version + 1, genes |-> m]
    /\ UNCHANGED <<db, txn, pc, loc, served, cmp, today>>

\* --------------------------------------------- PatientResource.get (lookup)
\* "panel_id = query.rcode_to_panelID(...); database_version = query.get_db_latest_version(...)"
\* PatientStartFor taking the stored version for missing whatever the panel row holds
PatientStartFor_unread(p, rcode) ==
    /\ pc[p] \in {"idle", "done"}
    /\ served < MaxRequests
    /\ served' = served + 1
    /\ loc' = [loc EXCEPT ![p] =
          [IdleLoc EXCEPT !.kind = "patient",
                          !.rcode = rcode,
                          !.panel_id = rcode_to_panelID(View(p), rcode),
                          !.database_version = NoVersion,
                          !.pre = db]]
    /\ pc' = [pc EXCEPT ![p] = "get_version"]
    /\ UNCHANGED <<db, txn, registry, cmp, today>>

\* PatientResource.get for args["R code"] = rcode, up to the registry request
PatientStartFor(p, rcode) ==
    /\ pc[p] \in {"idle", "done"}
    /\ served < MaxRequests
    /\ served' = served + 1
    /\ loc' = [loc EXCEPT ![p] =
          [IdleLoc EXCEPT !.kind = "patient",
                          !.rcode = rcode,
                          !.panel_id = rcode_to_panelID(View(p), rcode),
                          !.database_version = get_db_latest_version(View(p), rcode),
                          !.pre = db]]
    /\ pc' = [pc EXCEPT ![p] = "get_version"]
    /\ UNCHANGED <<db, txn, registry, cmp, today>>

\* a lookup for the test code the stored panel belongs to
PatientStart(p) == PatientStartFor(p, TheRcode)

\* GetLatestOnlineVersion without the handler's except: an unreachable registry
\* leaves latest_online_version None and the comparison goes ahead
GetLatestOnlineVersion_uncaught(p) ==
    /\ pc[p] = "get_version"
    /\ \E v \in {registry.version, KeyErrorObject, NoVersion} :
          /\ loc' = [loc EXCEPT
                ![p].latest_online_version = v,
                ![p].fetched = registry.genes,
                ![p].disclaimer =
                    IF v = NoVersion THEN "unable to be contacted"
                    ELSE IF loc[p].database_version # v THEN None
                    ELSE "Panel comparison up to date"]
          /\ pc' = [pc EXCEPT ![p] =
                IF loc[p].database_version # v THEN "update_version" ELSE "respond"]
    /\ UNCHANGED <<db, txn, registry, served, cmp, today>>

\* get_latest_online_version: the registry answers with its signed-off version,
\* or the request raises (registry unreachable), or the answer holds no version
\* and the KeyError object is returned instead of a number
GetLatestOnlineVersion(p) ==
    /\ pc[p] = "get_version"
    /\ \/ /\ loc' = [loc EXCEPT ![p].latest_online_version = NoVersion,
                                 ![p].disclaimer = "unable to be contacted"]
          /\ pc' = [pc EXCEPT ![p] = "respond"]
       \/ \E v \in {registry.version, KeyErrorObject} :
             /\ loc' = [loc EXCEPT
                   ![p].latest_online_version = v,
                   ![p].fetched = registry.genes,
                   ![p].disclaimer =
                       IF loc[p].database_version # v THEN None
                       ELSE "Panel comparison up to date"]
             /\ pc' = [pc EXCEPT ![p] =
                   IF loc[p].database_version # v THEN "update_version" ELSE "respond"]
    /\ UNCHANGED <<db, txn, registry, served, cmp, today>>

\* update.update_panels_version(...): UPDATE then commit; binding the KeyError
\* object raises before anything is written and the handler's except catches it
UpdatePanelsVersion(p) ==
    /\ pc[p] = "update_version"
    /\ IF loc[p].latest_online_version = KeyErrorObject
       THEN /\ loc' = [loc EXCEPT ![p].disclaimer = "Database update failed"]
            /\ pc' = [pc EXCEPT ![p] = "respond"]
            /\ UNCHANGED db
       ELSE /\ CanWrite(p)
            /\ db' = update_panels_version(db, loc[p].rcode,
                        loc[p].latest_online_version, loc[p].panel_id)
            /\ pc' = [pc EXCEPT ![p] = "archive"]
            /\ UNCHANGED loc
    /\ UNCHANGED <<txn, registry, served, cmp, today>>

\* update.archive_panel_contents(panel_id, database_version): INSERT..SELECT then commit
ArchivePanelContents(p) ==
    /\ pc[p] = "archive"
    /\ CanWrite(p)
    /\ db' = archive_panel_contents(db, loc[p].panel_id, loc[p].database_version)
    /\ pc' = [pc EXCEPT ![p] = "get_genes"]
    /\ UNCHANGED <<txn, registry, loc, served, cmp, today>>

\* update_gene_contents, first line: genes = self.papp.get_genes_HGNC(Rcode);
\* a failed request raises into the handler's except
GetGenesHGNC(p) ==
    /\ pc[p] = "get_genes"
    /\ \/ /\ loc' = [loc EXCEPT ![p].genes = registry.genes]
          /\ pc' = [pc EXCEPT ![p] = "delete_genes"]
       \/ /\ loc' = [loc EXCEPT ![p].disclaimer = "Database update failed"]
          /\ pc' = [pc EXCEPT ![p] = "respond"]
    /\ UNCHANGED <<db, txn, registry, served, cmp, today>>

\* DeleteGenes with the DELETE committed on its own
DeleteGenes_committed(p) ==
    /\ pc[p] = "delete_genes"
    /\ txn.owner = None
    /\ db' = delete_panel_genes(db, loc[p].panel_id)
    /\ txn' = [owner |-> p, db |-> delete_panel_genes(db, loc[p].panel_id)]
    /\ loc' = [loc EXCEPT ![p].replaced = current_panel_contents(db, loc[p].panel_id)]
    /\ pc' = [pc EXCEPT ![p] = "insert_genes"]
    /\ UNCHANGED <<registry, served, cmp, today>>

\* update_gene_contents: DELETE FROM panel_genes, which opens the transaction
DeleteGenes(p) ==
    /\ pc[p] = "delete_genes"
    /\ txn.owner = None
    /\ txn' = [owner |-> p, db |-> delete_panel_genes(db, loc[p].panel_id)]
    /\ loc' = [loc EXCEPT ![p].replaced = current_panel_contents(db, loc[p].panel_id)]
    /\ pc' = [pc EXCEPT ![p] = "insert_genes"]
    /\ UNCHANGED <<db, registry, served, cmp, today>>

\* update_gene_contents: the INSERT loop and the commit, then the handler's
\* "disclaimer = ...; database_version = query.get_db_latest_version(...)"
InsertGenes(p) ==
    /\ pc[p] = "insert_genes"
    /\ txn.owner = p
    /\ LET d == insert_panel_genes(txn.db, loc[p].panel_id,
                                   DictItems(loc[p].genes, GeneOrder))
       IN /\ db' = d
          /\ loc' = [loc EXCEPT
                ![p].disclaimer = "Panel comparison up to date",
                ![p].status = "reconciled",
                ![p].database_version = get_db_latest_version(d, loc[p].rcode)]
    /\ txn' = NoTxn
    /\ pc' = [pc EXCEPT ![p] = "respond"]
    /\ UNCHANGED <<registry, served, cmp, today>>

\* the rest of the handler only reads, and returns a response carrying the disclaimer
PatientRespond(p) ==
    /\ pc[p] = "respond"
    /\ loc' = [loc EXCEPT ![p].status =
                  IF loc[p].status = None THEN "answered" ELSE loc[p].status]
    /\ pc' = [pc EXCEPT ![p] = "done"]
    /\ UNCHANGED <<db, txn, registry, served, cmp, today>>

\* ------------------------------------------------- DowngradeClass.get
PayloadRows == [HGNC_ID : Genes, Confidence : ReleaseConfs]

\* the (HGNC_ID, Confidence) lists _extract_genes_from_records can return
Payloads == UNION {[1..n -> PayloadRows] : n \in 0..MaxPayload}

\* "database_version = query.get_db_latest_version(rcode)"; a request for the
\* stored version returns its message at once, and so does one whose Rcode has
\* no Panel_ID
DowngradeStart(p) ==
    /\ pc[p] \in {"idle", "done"}
    /\ served < MaxRequests
    /\ served' = served + 1
    /\ \E rcode \in {TheRcode, UnknownRcode}, version \in Versions :
          LET database_version == get_db_latest_version(View(p), rcode)
              panel_id == rcode_to_panelID(View(p), rcode)
              status == IF database_version = version THEN "matches current"
                        ELSE IF panel_id = None
                             THEN "Panel ID could not be identified"
                             ELSE None
          IN /\ loc' = [loc EXCEPT ![p] =
                   [IdleLoc EXCEPT
                       !.kind = "downgrade",
                       !.rcode = rcode,
                       !.version = version,
                       !.database_version = database_version,
                       !.panel_id = panel_id,
                       !.status = status,
                       !.pre = db]]
             /\ pc' = [pc EXCEPT ![p] =
                   IF status = None THEN "dg_records" ELSE "done"]
    /\ UNCHANGED <<db, txn, registry, cmp, today>>

\* DowngradeRecords without "if not panel_records: return ...": an empty
\* answer goes on to process_downgrade
DowngradeRecords_unchecked(p) ==
    /\ pc[p] = "dg_records"
    /\ \/ \E new_genes \in Payloads :
             /\ loc[p].version <= registry.version
             /\ loc' = [loc EXCEPT ![p].genes = new_genes,
                                   ![p].panel_records = "records"]
             /\ pc' = [pc EXCEPT ![p] = "dg_process"]
       \/ /\ loc' = [loc EXCEPT ![p].genes = <<>>,
                                 ![p].panel_records = "empty"]
          /\ pc' = [pc EXCEPT ![p] = "dg_process"]
       \/ /\ loc' = [loc EXCEPT ![p].status = "error"]
          /\ pc' = [pc EXCEPT ![p] = "done"]
    /\ UNCHANGED <<db, txn, registry, served, cmp, today>>

\* panel_app_client.dowgrade_records(...): the payload of the requested version
\* when the registry has that version, or an empty answer ("No records found"),
\* or the request raises and the handler's "except: pass" runs into
\* "return result" with result unbound
DowngradeRecords(p) ==
    /\ pc[p] = "dg_records"
    /\ \/ \E new_genes \in Payloads :
             /\ loc[p].version <= registry.version
             /\ loc' = [loc EXCEPT ![p].genes = new_genes,
                                   ![p].panel_records = "records"]
             /\ pc' = [pc EXCEPT ![p] = "dg_process"]
       \/ /\ loc' = [loc EXCEPT ![p].status = "No records found",
                                 ![p].panel_records = "empty"]
          /\ pc' = [pc EXCEPT ![p] = "done"]
       \/ /\ loc' = [loc EXCEPT ![p].status = "error"]
          /\ pc' = [pc EXCEPT ![p] = "done"]
    /\ UNCHANGED <<db, txn, registry, served, cmp, today>>

\* process_downgrade up to its commit: BEGIN TRANSACTION, change_panels_version,
\* change_gene_contents, all inside the connection's transaction; an UPDATE
\* that matches no row raises
ProcessDowngrade(p) ==
    /\ pc[p] = "dg_process"
    /\ txn.owner = None
    /\ IF change_panels_version_rowcount(db, loc[p].rcode, loc[p].panel_id) = 0
       THEN /\ txn' = [owner |-> p, db |-> db]
            /\ pc' = [pc EXCEPT ![p] = "dg_rollback"]
            /\ UNCHANGED loc
       ELSE /\ txn' = [owner |-> p,
                       db |-> change_gene_contents(
                                 change_panels_version(db, loc[p].rcode,
                                     loc[p].version, loc[p].panel_id),
                                 loc[p].panel_id,
                                 _extract_genes_from_records(loc[p].genes))]
            /\ loc' = [loc EXCEPT ![p].changes =
                          change_gene_contents_result(db, loc[p].panel_id,
                              _extract_genes_from_records(loc[p].genes))]
            /\ pc' = [pc EXCEPT ![p] = "dg_commit"]
    /\ UNCHANGED <<db, registry, served, cmp, today>>

\* the working copies process_downgrade can have reached when a later step
\* raises: the version set and the extraction failing, or the DELETE done and
\* the k-th INSERT failing
FailedDowngrades(d, rcode, version, panel_id, new_genes) ==
    LET versioned == change_panels_version(d, rcode, version, panel_id)
    IN {versioned}
       \cup IF change_gene_contents(versioned, panel_id, new_genes) = versioned
            THEN {}
            ELSE {insert_panel_genes(delete_panel_genes(versioned, panel_id),
                                     panel_id, SubSeq(new_genes, 1, k)) :
                     k \in 0..(Len(new_genes) - 1)}

\* process_downgrade when a step after the UPDATE raises
ProcessDowngradeFails(p) ==
    /\ pc[p] = "dg_process"
    /\ txn.owner = None
    /\ change_panels_version_rowcount(db, loc[p].rcode, loc[p].panel_id) > 0
    /\ \E partial \in FailedDowngrades(db, loc[p].rcode, loc[p].version,
                                        loc[p].panel_id,
                                        _extract_genes_from_records(loc[p].genes)) :
          txn' = [owner |-> p, db |-> partial]
    /\ pc' = [pc EXCEPT ![p] = "dg_rollback"]
    /\ UNCHANGED <<db, registry, loc, served, cmp, today>>

\* DowngradeRollback with the except block committing what was written
DowngradeRollback_commits(p) ==
    /\ pc[p] = "dg_rollback"
    /\ txn.owner = p
    /\ db' = txn.db
    /\ txn' = NoTxn
    /\ loc' = [loc EXCEPT ![p].status = "Failed to process downgrade",
                          ![p].discarded = txn.db]
    /\ pc' = [pc EXCEPT ![p] = "done"]
    /\ UNCHANGED <<registry, served, cmp, today>>

\* process_downgrade: except: cursor.execute("ROLLBACK"); raise, and the
\* handler's "except: pass"
DowngradeRollback(p) ==
    /\ pc[p] = "dg_rollback"
    /\ txn.owner = p
    /\ txn' = NoTxn
    /\ loc' = [loc EXCEPT ![p].status = "Failed to process downgrade",
                          ![p].discarded = txn.db]
    /\ pc' = [pc EXCEPT ![p] = "done"]
    /\ UNCHANGED <<db, registry, served, cmp, today>>

\* process_downgrade: self.conn.commit() and the result
DowngradeCommit(p) ==
    /\ pc[p] = "dg_commit"
    /\ txn.owner = p
    /\ db' = txn.db
    /\ txn' = NoTxn
    /\ loc' = [loc EXCEPT ![p].status = "downgraded"]
    /\ pc' = [pc EXCEPT ![p] = "done"]
    /\ UNCHANGED <<registry, served, cmp, today>>

\* ------------------------------------------------- UpdateClass.get (record)
\* RecordCheckPresence going on to add_record whatever check_presence returned
RecordCheckPresence_unchecked(p) ==
    /\ pc[p] \in {"idle", "done"}
    /\ served < MaxRequests
    /\ served' = served + 1
    /\ \E patient_id \in Patients, rcode \in Rcodes :
          /\ loc' = [loc EXCEPT ![p] =
                [IdleLoc EXCEPT
                    !.kind = "record",
                    !.patient_id = patient_id,
                    !.rcode = rcode,
                    !.is_present = check_presence(View(p), patient_id, rcode),
                    !.pre = db]]
          /\ pc' = [pc EXCEPT ![p] = "add_record"]
    /\ UNCHANGED <<db, txn, registry, cmp, today>>

\* "is_present = update.check_presence(args["Patient ID"], args["R code"])";
\* a patient who has the record gets the "already has a record" status
RecordCheckPresence(p) ==
    /\ pc[p] \in {"idle", "done"}
    /\ served < MaxRequests
    /\ served' = served + 1
    /\ \E patient_id \in Patients, rcode \in Rcodes :
          LET is_present == check_presence(View(p), patient_id, rcode)
          IN /\ loc' = [loc EXCEPT ![p] =
                   [IdleLoc EXCEPT
                       !.kind = "record",
                       !.patient_id = patient_id,
                       !.rcode = rcode,
                       !.is_present = is_present,
                       !.status = IF is_present = PyFalse THEN None
                                  ELSE "already has a record",
                       !.pre = db]]
             /\ pc' = [pc EXCEPT ![p] =
                   IF is_present = PyFalse THEN "add_record" ELSE "done"]
    /\ UNCHANGED <<db, txn, registry, cmp, today>>

\* "if is_present is False: updated_record = update.add_record(...)": the
\* INSERT and its commit
RecordAdd(p) ==
    /\ pc[p] = "add_record"
    /\ CanWrite(p)
    /\ db' = add_record(db, loc[p].patient_id, loc[p].rcode, today)
    /\ loc' = [loc EXCEPT ![p].status = "added"]
    /\ pc' = [pc EXCEPT ![p] = "done"]
    /\ UNCHANGED <<txn, registry, served, cmp, today>>

\* midnight
Tick ==
    /\ today < MaxDay
    /\ today' = today + 1
    /\ UNCHANGED <<db, txn, registry, pc, loc, served, cmp>>

\* ------------------------------------------------------------ specifications
PatientStep(p) ==
    \/ PatientStart(p)
    \/ GetLatestOnlineVersion(p)
    \/ UpdatePanelsVersion(p)
    \/ ArchivePanelContents(p)
    \/ GetGenesHGNC(p)
    \/ DeleteGenes(p)
    \/ InsertGenes(p)
    \/ PatientRespond(p)

DowngradeStep(p) ==
    \/ DowngradeStart(p)
    \/ DowngradeRecords(p)
    \/ ProcessDowngrade(p)
    \/ ProcessDowngradeFails(p)
    \/ DowngradeRollback(p)
    \/ DowngradeCommit(p)

\* patient lookups and downgrades served one after the other
NextSeq ==
    \/ PatientStep("a")
    \/ DowngradeStep("a")
    \/ RegistryChange

SpecSeq == Init /\ [][NextSeq]_vars

RecordStep(p) ==
    \/ RecordCheckPresence(p)
    \/ RecordAdd(p)

\* record requests, patient lookups and downgrades served one after the other;
\* the releases of this specification all list the same genes
NextRec ==
    \/ RecordStep("a")
    \/ PatientStep("a")
    \/ DowngradeStep("a")
          /\ (pc'["a"] = "dg_process"
                => loc'["a"].genes = DictItems(registry.genes, GeneOrder))
    \/ RegistryChange /\ DOMAIN registry'.genes = DOMAIN registry.genes
    \/ Tick

SpecRec == Init /\ [][NextRec]_vars

\* record requests served at the same time, each on its own connection
NextRecConc ==
    \/ \E p \in Procs : RecordStep(p) /\ served' <= MaxOverlap
    \/ Tick

SpecRecConc == Init /\ [][NextRecConc]_vars

\* patient lookups served at the same time, each on its own connection
Next ==
    \/ \E p \in Procs : PatientStep(p) /\ served' <= MaxOverlap
    \/ RegistryChange

Spec == Init /\ [][Next]_vars

\* ------------------------------------------ archive_panel_contents on its own
ArchPanelGenes ==
    UNION {[1..n -> [Panel_ID : {ThePanel}, HGNC_ID : Genes, Confidence : Confs]] :
              n \in 0..MaxPayload}

ArchArchives ==
    UNION {[1..n -> [Panel_ID : {ThePanel}, HGNC_ID : Genes, Version : Versions,
                     Confidence : ReleaseConfs]] : n \in 0..MaxRows}

\* a patient lookup about to archive the panel under its stored version
InitArch ==
    /\ \E pg \in ArchPanelGenes, pga \in ArchArchives :
          db = [InitDb(InitGenes) EXCEPT
                   !.panel_genes = pg \o <<[Panel_ID |-> OtherPanel,
                                            HGNC_ID |-> "HGNC:1", Confidence |-> 3]>>,
                   !.panel_genes_archive = pga]
    /\ \E v \in Versions :
          loc = [p \in Procs |->
                   IF p = "a"
                   THEN [IdleLoc EXCEPT !.kind = "patient", !.panel_id = ThePanel,
                                        !.database_version = v, !.pre = db]
                   ELSE IdleLoc]
    /\ pc = [p \in Procs |-> IF p = "a" THEN "archive" ELSE "idle"]
    /\ registry = [version |-> 1, genes |-> InitGenes]
    /\ txn = NoTxn
    /\ served = 0
    /\ cmp = NoCmp
    /\ today = 1

NextArch == ArchivePanelContents("a")

SpecArch == InitArch /\ [][NextArch]_vars

\* ------------------------------------------- check_patient_history on its own
HistRows ==
    {[Patient_ID |-> pt, Panel_ID |-> IF rc = TheRcode THEN ThePanel ELSE OtherPanel,
      Rcode |-> rc, Version |-> v, Date |-> dt] :
        pt \in Patients, rc \in {TheRcode, OtherRcode}, v \in Versions,
        dt \in 1..MaxDay}

HistTables == UNION {[1..n -> HistRows] : n \in 0..MaxRows}

InitHist ==
    /\ \E t \in HistTables : db = [InitDb(InitGenes) EXCEPT !.patient_data = t]
    /\ registry = [version |-> 1, genes |-> InitGenes]
    /\ txn = NoTxn
    /\ pc = [p \in Procs |-> "idle"]
    /\ loc = [p \in Procs |-> IdleLoc]
    /\ served = 0
    /\ cmp = NoCmp
    /\ today = 1

CheckPatientHistory ==
    /\ pc["a"] = "idle"
    /\ \E patient_id \in Patients, rcode \in {TheRcode, OtherRcode} :
          loc' = [loc EXCEPT !["a"] =
              [IdleLoc EXCEPT
                  !.kind = "history",
                  !.patient_id = patient_id,
                  !.rcode = rcode,
                  !.patient_history = check_patient_history(db, patient_id, rcode)]]
    /\ pc' = [pc EXCEPT !["a"] = "done"]
    /\ UNCHANGED <<db, txn, registry, served, cmp, today>>

\* PatientResource.get without a Patient ID: all patients of an R code
ReturnAllPatients ==
    /\ pc["a"] = "idle"
    /\ \E rcode \in {TheRcode, OtherRcode} :
          loc' = [loc EXCEPT !["a"] =
              [IdleLoc EXCEPT
                  !.kind = "patients",
                  !.rcode = rcode,
                  !.patients_list = return_all_patients(db, rcode)]]
    /\ pc' = [pc EXCEPT !["a"] = "done"]
    /\ UNCHANGED <<db, txn, registry, served, cmp, today>>

NextHist ==
    \/ CheckPatientHistory
    \/ ReturnAllPatients

SpecHist == InitHist /\ [][NextHist]_vars

\* ------------------------------------------ compare_panel_versions on its own
\* ---- the weekly update over drawn panel contents and archives ----

WeeklyPanelGenes ==
    UNION {[1..n -> [Panel_ID : {ThePanel}, HGNC_ID : Genes, Confidence : ReleaseConfs]] :
              n \in 0..MaxPayload}

WeeklyArchives ==
    UNION {[1..n -> [Panel_ID : {ThePanel}, HGNC_ID : Genes, Version : {1},
                     Confidence : ReleaseConfs]] : n \in 0..MaxRows}

NewPanel == "P9"

InitWeekly ==
    /\ \E pg \in WeeklyPanelGenes, pga \in WeeklyArchives :
          db = [InitDb(InitGenes) EXCEPT
                   !.panel_genes = pg \o <<[Panel_ID |-> OtherPanel,
                                            HGNC_ID |-> "HGNC:1", Confidence |-> 3]>>,
                   !.panel_genes_archive = pga]
    /\ registry = [version |-> 1, genes |-> InitGenes]
    /\ txn = NoTxn
    /\ pc = [p \in Procs |-> "idle"]
    /\ loc = [p \in Procs |-> IdleLoc]
    /\ served = 0
    /\ cmp = NoCmp
    /\ today = 1

\* main(): one entry of latest_versions, its genes fetched or the fetch
\* failing, update_or_insert_panel_versions and the commit
WeeklyUpdate ==
    /\ pc["a"] = "idle"
    /\ \E panel_id \in {ThePanel, NewPanel}, latest_version \in Versions,
          answered \in BOOLEAN :
       \E fetched \in IF answered THEN Mappings ELSE {EmptyDict} :
          LET latest_genes == DictItems(fetched, GeneOrder)
          IN /\ db' = update_or_insert_panel_versions(db, panel_id, latest_version,
                                                      latest_genes)
             /\ loc' = [loc EXCEPT !["a"] =
                   [IdleLoc EXCEPT
                       !.kind = "weekly",
                       !.panel_id = panel_id,
                       !.latest_online_version = latest_version,
                       !.fetched = fetched,
                       !.status = IF answered THEN None
                                  ELSE "Error fetching latest genes from API",
                       !.pre = db]]
    /\ pc' = [pc EXCEPT !["a"] = "done"]
    /\ UNCHANGED <<txn, registry, served, cmp, today>>

NextWeekly == WeeklyUpdate

SpecWeekly == InitWeekly /\ [][NextWeekly]_vars

\* ---- process_downgrade over drawn panel contents and payloads ----

DeltaEntries ==
    [HGNC_ID : Genes \cup {None}, Confidence : Confs \cup {NoConfidence}]

DeltaRecords == UNION {[1..n -> DeltaEntries] : n \in 0..MaxPayload}

DeltaPanelGenes ==
    UNION {[1..n -> [Panel_ID : {ThePanel}, HGNC_ID : Genes,
                     Confidence : Confs \cup {0}]] : n \in 0..MaxPayload}

\* a downgrade that has fetched the payload of the requested version
InitDelta ==
    /\ \E pg \in DeltaPanelGenes :
          db = [InitDb(InitGenes) EXCEPT
                   !.panel_genes = pg \o <<[Panel_ID |-> OtherPanel,
                                            HGNC_ID |-> "HGNC:1", Confidence |-> 3]>>]
    /\ \E panel_records \in DeltaRecords, v \in {2} :
          loc = [p \in Procs |->
                   IF p = "a"
                   THEN [IdleLoc EXCEPT !.kind = "downgrade", !.rcode = TheRcode,
                                        !.panel_id = ThePanel, !.version = v,
                                        !.database_version = 1,
                                        !.genes = panel_records,
                                        !.panel_records = "records", !.pre = db]
                   ELSE IdleLoc]
    /\ pc = [p \in Procs |-> IF p = "a" THEN "dg_process" ELSE "idle"]
    /\ registry = [version |-> MaxVersion, genes |-> InitGenes]
    /\ txn = NoTxn
    /\ served = 0
    /\ cmp = NoCmp
    /\ today = 1

NextDelta ==
    \/ ProcessDowngrade("a")
    \/ DowngradeCommit("a")

SpecDelta == InitDelta /\ [][NextDelta]_vars

\* ---- a downgrade and the lookup that follows it ----

RevertArchives ==
    UNION {[1..n -> [Panel_ID : {ThePanel}, HGNC_ID : Genes, Version : {1},
                     Confidence : Confs]] : n \in 0..MaxRows}

\* the panel stored at version 2, version 1 archived by earlier reconciliations,
\* and a downgrade to version 1 that has fetched its payload
InitRevert ==
    /\ \E pga \in RevertArchives :
          db = [InitDb(InitGenes) EXCEPT
                   !.panel[TheRcode].Version = 2,
                   !.panel_genes_archive = pga]
    /\ \E panel_records \in Payloads :
          loc = [p \in Procs |->
                   IF p = "a"
                   THEN [IdleLoc EXCEPT !.kind = "downgrade", !.rcode = TheRcode,
                                        !.panel_id = ThePanel, !.version = 1,
                                        !.database_version = 2,
                                        !.genes = panel_records,
                                        !.panel_records = "records", !.pre = db]
                   ELSE IdleLoc]
    /\ pc = [p \in Procs |-> IF p = "a" THEN "dg_process" ELSE "idle"]
    /\ \E m \in Mappings : registry = [version |-> 2, genes |-> m]
    /\ txn = NoTxn
    /\ served = 0
    /\ cmp = NoCmp
    /\ today = 1

\* the downgrade, then one patient lookup
NextRevert ==
    \/ ProcessDowngrade("a")
    \/ DowngradeCommit("a")
    \/ PatientStep("a") /\ served' <= 1

SpecRevert == InitRevert /\ [][NextRevert]_vars

CmpGenes == {"HGNC:1", "HGNC:2", "HGNC:3"}
CmpMappings == UNION {[S -> Confs] : S \in SUBSET CmpGenes}

InitCmp ==
    /\ db = InitDb(InitGenes)
    /\ registry = [version |-> 1, genes |-> InitGenes]
    /\ txn = NoTxn
    /\ pc = [p \in Procs |-> "idle"]
    /\ loc = [p \in Procs |-> IdleLoc]
    /\ served = 0
    /\ today = 1
    /\ \E o \in CmpMappings, n \in CmpMappings :
          cmp = [old |-> o, new |-> n, called |-> FALSE, out |-> <<>>]

Compare ==
    /\ ~ cmp.called
    /\ cmp' = [cmp EXCEPT !.called = TRUE,
                          !.out = compare_panel_versions(cmp.old, cmp.new)]
    /\ UNCHANGED <<db, txn, registry, pc, loc, served, today>>

NextCmp == Compare

SpecCmp == InitCmp /\ [][NextCmp]_vars

\* patient lookups served one after the other, for the stored test code and
\* for one the panel table has no row of; the registry answers either
NextLookup ==
    \/ PatientStep("a")
    \/ PatientStartFor("a", UnknownRcode)
    \/ RegistryChange

SpecLookup == Init /\ [][NextLookup]_vars

\* ---- the panel searches over drawn tables ----

SearchRows ==
    {[Panel_ID |-> pid, HGNC_ID |-> g, Confidence |-> c] :
        pid \in {ThePanel, OtherPanel}, g \in Genes, c \in ReleaseConfs}

SearchTables == UNION {[1..n -> SearchRows] : n \in 0..MaxPayload}

PanelKeys == {ThePanel, "P9", "P"}

RcodeKeys == {TheRcode, UnknownRcode, "R"}

GeneLists == UNION {[1..n -> Genes] : n \in 0..MaxPayload}

InitSearch ==
    /\ \E t \in SearchTables, info \in SUBSET Genes :
          db = [InitDb(InitGenes) EXCEPT !.panel_genes = t, !.genes_info = info]
    /\ registry = [version |-> 1, genes |-> InitGenes]
    /\ txn = NoTxn
    /\ pc = [p \in Procs |-> "idle"]
    /\ loc = [p \in Procs |-> IdleLoc]
    /\ served = 0
    /\ cmp = NoCmp
    /\ today = 1

GetPanelData ==
    /\ pc["a"] = "idle"
    /\ \E panel_id \in PanelKeys, matches \in BOOLEAN :
          loc' = [loc EXCEPT !["a"] =
              [IdleLoc EXCEPT
                  !.kind = "panel_id",
                  !.panel_id = panel_id,
                  !.matches = matches,
                  !.panel_data = get_panel_data(db, panel_id, matches)]]
    /\ pc' = [pc EXCEPT !["a"] = "done"]
    /\ UNCHANGED <<db, txn, registry, served, cmp, today>>

GetPanelsByRcode ==
    /\ pc["a"] = "idle"
    /\ \E rcode \in RcodeKeys, matches \in BOOLEAN :
          loc' = [loc EXCEPT !["a"] =
              [IdleLoc EXCEPT
                  !.kind = "rcode",
                  !.rcode = rcode,
                  !.matches = matches,
                  !.panel_data = get_panels_by_rcode(db, rcode, matches)]]
    /\ pc' = [pc EXCEPT !["a"] = "done"]
    /\ UNCHANGED <<db, txn, registry, served, cmp, today>>

GetPanelsFromGeneList ==
    /\ pc["a"] = "idle"
    /\ \E hgnc_ids \in GeneLists, matches \in BOOLEAN :
          loc' = [loc EXCEPT !["a"] =
              [IdleLoc EXCEPT
                  !.kind = "hgnc_id",
                  !.hgnc_ids = hgnc_ids,
                  !.matches = matches,
                  !.panel_data = get_panels_from_gene_list(db, hgnc_ids, matches)]]
    /\ pc' = [pc EXCEPT !["a"] = "done"]
    /\ UNCHANGED <<db, txn, registry, served, cmp, today>>

NextSearch ==
    \/ GetPanelData
    \/ GetPanelsByRcode
    \/ GetPanelsFromGeneList

SpecSearch == InitSearch /\ [][NextSearch]_vars

TypeOK ==
    /\ txn.owner \in Procs \cup {None}
    /\ registry.version \in Versions
    /\ \A p \in Procs : loc[p].kind \in {None, "patient", "downgrade", "record", "history",
                                          "panel_id", "rcode", "hgnc_id", "patients",
                                          "weekly"}
    /\ today \in 1..MaxDay

\* ------------------------------------------------------------------ claims
\* a patient lookup whose three reconciliation steps all ran
Reconciled(p) ==
    /\ pc[p] \in {"respond", "done"}
    /\ loc[p].kind = "patient"
    /\ loc[p].status = "reconciled"

\* C1: after the reconciliation sequence completes, the stored version is the
\* registry version that was fetched and the panel's contents are exactly the
\* registry's gene mapping of that version
C1_RoundTrip ==
    \A p \in Procs :
        Reconciled(p) =>
            /\ get_db_latest_version(db, TheRcode) = loc[p].latest_online_version
            /\ current_panel_contents(db, loc[p].panel_id) = loc[p].fetched

\* C2: after a reconciliation supersedes stored version V, the archive of V is
\* exactly what the panel held immediately before that reconciliation
C2_ArchiveCorrect ==
    \A p \in Procs :
        Reconciled(p) =>
            historic_panel_retrieval(db, loc[p].panel_id,
                                     get_db_latest_version(loc[p].pre, TheRcode))
                = current_panel_contents(loc[p].pre, loc[p].panel_id)

\* C3: a reconciliation that fails leaves panel, panel_genes and
\* panel_genes_archive as they were before the request
C3_AllOrNothing ==
    \A p \in Procs :
        (/\ pc[p] \in {"respond", "done"}
         /\ loc[p].kind = "patient"
         /\ loc[p].disclaimer = "Database update failed")
            => db = loc[p].pre

\* the archived rows of one version of a panel, in rowid order
ArchiveRows(d, panel_id, version) ==
    SeqFilter(d.panel_genes_archive,
              {r \in Range(d.panel_genes_archive) :
                  r.Panel_ID = panel_id /\ r.Version = version})

\* C4: when two requests reconcile the same stale panel at the same time (both
\* read the old stored version before either writes), the archive of the old
\* version ends up being exactly the old contents and the panel holds the
\* contents fetched from the registry
C4_ConcurrentReconcile ==
    (/\ \A p \in Procs : pc[p] = "respond" /\ loc[p].kind = "patient"
     /\ \E p \in Procs : loc[p].status = "reconciled"
     /\ loc["a"].pre = loc["b"].pre
     /\ loc["a"].latest_online_version = loc["b"].latest_online_version)
        => LET old == loc["a"].pre
               V == get_db_latest_version(old, TheRcode)
           IN /\ historic_panel_retrieval(db, ThePanel, V)
                    = current_panel_contents(old, ThePanel)
              /\ Len(ArchiveRows(db, ThePanel, V))
                    = Cardinality(DOMAIN current_panel_contents(old, ThePanel))
              /\ \E p \in Procs :
                    /\ loc[p].status = "reconciled"
                    /\ current_panel_contents(db, ThePanel) = loc[p].genes

\* C5: archiving the same version twice in a row, with panel_genes unchanged in
\* between, leaves the archive with the rows of archiving it once
C5_ArchiveIdempotent ==
    \A v \in Versions :
        LET once == archive_panel_contents(db, ThePanel, v)
        IN archive_panel_contents(once, ThePanel, v) = once

\* an archive call has just run, it added rows, and some of the panel's genes
\* were archived under that version already
C5_Witness ==
    /\ pc["a"] = "get_genes"
    /\ Len(db.panel_genes_archive) > Len(loc["a"].pre.panel_genes_archive)
    /\ ArchiveRows(loc["a"].pre, ThePanel, loc["a"].database_version) # <<>>
    /\ current_panel_contents(db, ThePanel) # EmptyDict

\* C6: the archive never holds two rows of one (Panel_ID, HGNC_ID, Version)
C6_NoDuplicateTriples ==
    \A i, j \in DOMAIN db.panel_genes_archive :
        LET r == db.panel_genes_archive[i]
            q == db.panel_genes_archive[j]
        IN (/\ r.Panel_ID = q.Panel_ID
            /\ r.HGNC_ID = q.HGNC_ID
            /\ r.Version = q.Version) => i = j

\* C7: whenever a request has overwritten the panel's genes, reconciliation or
\* downgrade, the archive of the superseded version is the content overwritten
C7_ArchivedBeforeOverwrite ==
    \A p \in Procs :
        (/\ \/ Reconciled(p)
            \/ pc[p] = "done" /\ loc[p].kind = "downgrade"
                              /\ loc[p].status = "downgraded"
         /\ db.panel_genes # loc[p].pre.panel_genes)
            => historic_panel_retrieval(db, loc[p].panel_id,
                                        get_db_latest_version(loc[p].pre, TheRcode))
                 = current_panel_contents(loc[p].pre, loc[p].panel_id)

\* C8: compare_panel_versions puts every gene of old or new in exactly one of
\* added, removed, changed and unchanged, with the confidences the spec names
C8_Partition ==
    cmp.called =>
        LET old == cmp.old
            new == cmp.new
            added == cmp.out[1]
            removed == cmp.out[2]
            changed == cmp.out[3]
            unchanged == {g \in (DOMAIN old) \cap (DOMAIN new) : old[g] = new[g]}
        IN /\ (DOMAIN added) \cup (DOMAIN removed) \cup (DOMAIN changed)
                 \subseteq (DOMAIN old) \cup (DOMAIN new)
           /\ \A g \in (DOMAIN old) \cup (DOMAIN new) :
                 /\ g \in DOMAIN added <=> (g \in DOMAIN new /\ g \notin DOMAIN old)
                 /\ g \in DOMAIN removed <=> (g \in DOMAIN old /\ g \notin DOMAIN new)
                 /\ g \in DOMAIN changed <=>
                       (g \in DOMAIN old /\ g \in DOMAIN new /\ old[g] # new[g])
                 /\ g \in DOMAIN added => added[g] = new[g]
                 /\ g \in DOMAIN removed => removed[g] = old[g]
                 /\ g \in DOMAIN changed => changed[g] = <<old[g], new[g]>>
                 /\ Cardinality({k \in 1..4 :
                        \/ k = 1 /\ g \in DOMAIN added
                        \/ k = 2 /\ g \in DOMAIN removed
                        \/ k = 3 /\ g \in DOMAIN changed
                        \/ k = 4 /\ g \in unchanged}) = 1

\* a call whose result has an added, a removed and a changed gene
C8_Witness ==
    /\ cmp.called
    /\ DOMAIN cmp.out[1] # {}
    /\ DOMAIN cmp.out[2] # {}
    /\ DOMAIN cmp.out[3] # {}

\* C9: while update_gene_contents is between its DELETE and its commit, a
\* statement on another connection never finds the panel without genes, when
\* the contents replaced and the fetched mapping are both non-empty
C9_NeverEmpty ==
    \A w \in Procs : \A r \in Procs \ {w} :
        (/\ pc[w] = "insert_genes"
         /\ loc[w].replaced # EmptyDict
         /\ loc[w].genes # EmptyDict)
            => current_panel_contents(View(r), ThePanel) # EmptyDict

\* the writer has deleted the rows, not yet committed, and the other request
\* is about to read the panel's contents
C9_Witness ==
    \E w \in Procs : \E r \in Procs \ {w} :
        /\ pc[w] = "insert_genes"
        /\ loc[w].replaced # EmptyDict
        /\ loc[w].genes # EmptyDict
        /\ current_panel_contents(View(w), ThePanel) = EmptyDict
        /\ pc[r] = "respond"

\* C10: a patient lookup that could not reach the registry for the latest
\* version still answers, with the disclaimer, and leaves the tables as they were
C10_RegistryUnreachable ==
    \A p \in Procs :
        (/\ pc[p] = "done"
         /\ loc[p].kind = "patient"
         /\ loc[p].latest_online_version = NoVersion)
            => /\ loc[p].status = "answered"
               /\ loc[p].disclaimer = "unable to be contacted"
               /\ db = loc[p].pre

\* such a lookup has answered while the stored version was behind the registry's
C10_Witness ==
    /\ pc["a"] = "done"
    /\ loc["a"].kind = "patient"
    /\ loc["a"].latest_online_version = NoVersion
    /\ loc["a"].status = "answered"
    /\ get_db_latest_version(db, TheRcode) # registry.version

\* C11: with the requests served one after the other (record requests,
\* reconciliations, downgrades), patient_data never holds two rows of one
\* (Patient_ID, Rcode, Version)
C11_NoDuplicateRecords ==
    \A i, j \in DOMAIN db.patient_data :
        LET r == db.patient_data[i]
            q == db.patient_data[j]
        IN (/\ r.Patient_ID = q.Patient_ID
            /\ r.Rcode = q.Rcode
            /\ r.Version = q.Version) => i = j

\* a record request was turned away for a patient already recorded against the
\* stored version, after a reconciliation had changed that version
C11_Witness ==
    /\ pc["a"] = "done"
    /\ loc["a"].kind = "record"
    /\ loc["a"].rcode = TheRcode
    /\ loc["a"].status = "already has a record"
    /\ get_db_latest_version(db, TheRcode) # 1

\* C13: check_presence returns the stored version exactly when patient_data
\* holds a row of that patient, that Rcode and the version stored in panel for
\* the Rcode, and False otherwise
C13_CheckPresence ==
    \A p \in Procs :
        (/\ pc[p] \in {"add_record", "done"}
         /\ loc[p].kind = "record"
         /\ loc[p].rcode \in DOMAIN loc[p].pre.panel)
            => LET stored == loc[p].pre.panel[loc[p].rcode].Version
                   held == \E i \in DOMAIN loc[p].pre.patient_data :
                              LET r == loc[p].pre.patient_data[i]
                              IN /\ r.Patient_ID = loc[p].patient_id
                                 /\ r.Rcode = loc[p].rcode
                                 /\ r.Version = stored
               IN /\ held <=> loc[p].is_present # PyFalse
                  /\ held => loc[p].is_present = stored

\* after a reconciliation a patient recorded against the superseded version
\* only was found absent and recorded again, against the new version
C13_Witness ==
    /\ pc["a"] = "done"
    /\ loc["a"].kind = "record"
    /\ loc["a"].status = "added"
    /\ \E i, j \in DOMAIN db.patient_data :
          /\ i < j
          /\ j = Len(db.patient_data)
          /\ db.patient_data[i].Patient_ID = db.patient_data[j].Patient_ID
          /\ db.patient_data[i].Rcode = db.patient_data[j].Rcode
          /\ db.patient_data[i].Version # db.patient_data[j].Version
          /\ db.patient_data[j].Version = get_db_latest_version(db, TheRcode)

\* C12: when record requests for one patient and Rcode run at the same time
\* against one stored version, patient_data ends up with at most one row of
\* that patient, Rcode and version
C12_ConcurrentInsertion ==
    \A patient_id \in Patients : \A rcode \in Rcodes :
        Cardinality({i \in DOMAIN db.patient_data :
                        /\ db.patient_data[i].Patient_ID = patient_id
                        /\ db.patient_data[i].Rcode = rcode
                        /\ db.patient_data[i].Version
                              = Str(get_db_latest_version(db, rcode))}) <= 1

\* the rows of patient_data a history call is about
HistoryOf(p) ==
    {r \in Range(db.patient_data) :
        r.Patient_ID = loc[p].patient_id /\ r.Rcode = loc[p].rcode}

\* C14: check_patient_history returns the Version of the patient's row for the
\* Rcode with the most recent Date, the highest Version among the rows of that
\* Date, and None when the patient has no row for the Rcode
C14_PatientHistory ==
    (pc["a"] = "done" /\ loc["a"].kind = "history")
        => IF HistoryOf("a") = {}
           THEN loc["a"].patient_history = NoVersion
           ELSE \E r \in HistoryOf("a") :
                   /\ loc["a"].patient_history = r.Version
                   /\ \A q \in HistoryOf("a") :
                         \/ q.Date < r.Date
                         \/ q.Date = r.Date /\ q.Version <= r.Version

\* the patient has two rows of the most recent Date, the lower Version first
C14_Witness ==
    /\ pc["a"] = "done"
    /\ loc["a"].kind = "history"
    /\ Len(db.patient_data) = 2
    /\ db.patient_data[1] \in HistoryOf("a")
    /\ db.patient_data[2] \in HistoryOf("a")
    /\ db.patient_data[1].Date = db.patient_data[2].Date
    /\ db.patient_data[1].Version < db.patient_data[2].Version
    /\ loc["a"].patient_history = db.patient_data[2].Version

\* C15: a process_downgrade that fails after its BEGIN leaves panel and
\* panel_genes as they were before the call; nothing of it is committed
C15_DowngradeAllOrNothing ==
    \A p \in Procs :
        (/\ pc[p] = "done"
         /\ loc[p].kind = "downgrade"
         /\ loc[p].status = "Failed to process downgrade")
            => /\ db.panel = loc[p].pre.panel
               /\ db.panel_genes = loc[p].pre.panel_genes
               /\ txn = NoTxn

\* a downgrade failed after it had set the version and rewritten some genes
C15_Witness ==
    /\ pc["a"] = "done"
    /\ loc["a"].kind = "downgrade"
    /\ loc["a"].status = "Failed to process downgrade"
    /\ loc["a"].discarded.panel # db.panel
    /\ loc["a"].discarded.panel_genes # db.panel_genes

\* C16: a downgrade whose extracted genes are the panel's current genes returns
\* the no-changes result and leaves the rows of panel_genes as they were
C16_EmptyDelta ==
    \A p \in Procs :
        (/\ pc[p] = "done"
         /\ loc[p].kind = "downgrade"
         /\ loc[p].status = "downgraded"
         /\ RowsToDict(loc[p].genes)
               = current_panel_contents(loc[p].pre, loc[p].panel_id))
            => /\ loc[p].changes.message = "No changes detected between versions"
               /\ db.panel_genes = loc[p].pre.panel_genes

\* such a downgrade went through on a panel that has genes, and set the version
C16_Witness ==
    /\ pc["a"] = "done"
    /\ loc["a"].kind = "downgrade"
    /\ loc["a"].status = "downgraded"
    /\ loc["a"].genes # <<>>
    /\ RowsToDict(loc["a"].genes)
          = current_panel_contents(loc["a"].pre, loc["a"].panel_id)
    /\ db.panel # loc["a"].pre.panel

\* C17: a downgrade request for the stored version, for an Rcode without a
\* Panel_ID, or whose registry answer holds no records returns its message and
\* leaves panel, panel_genes, panel_genes_archive and patient_data unchanged
C17_RejectedDowngrade ==
    \A p \in Procs :
        (pc[p] = "done" /\ loc[p].kind = "downgrade")
            => /\ (loc[p].database_version = loc[p].version)
                     => /\ loc[p].status = "matches current"
                        /\ db = loc[p].pre
               /\ (loc[p].database_version # loc[p].version /\ loc[p].panel_id = None)
                     => /\ loc[p].status = "Panel ID could not be identified"
                        /\ db = loc[p].pre
               /\ (loc[p].panel_records = "empty")
                     => /\ loc[p].status = "No records found"
                        /\ db = loc[p].pre

\* the registry answered a downgrade of a panel that has genes with no records,
\* while the stored version was not the requested one
C17_Witness ==
    /\ pc["a"] = "done"
    /\ loc["a"].kind = "downgrade"
    /\ loc["a"].panel_records = "empty"
    /\ loc["a"].status = "No records found"
    /\ current_panel_contents(db, ThePanel) # EmptyDict
    /\ get_db_latest_version(db, TheRcode) # 1

\* the rows of s are the first rows of t, unchanged
IsPrefix(s, t) == Len(s) <= Len(t) /\ SubSeq(t, 1, Len(s)) = s

\* C18: panel_genes_archive and patient_data are append-only: every step of a
\* record request, a reconciliation or a downgrade keeps the rows they hold
C18_AppendOnly ==
    [][/\ IsPrefix(db.panel_genes_archive, db'.panel_genes_archive)
       /\ IsPrefix(db.patient_data, db'.patient_data)]_vars

\* a downgrade has gone through while both tables held rows
C18_Witness ==
    /\ pc["a"] = "done"
    /\ loc["a"].kind = "downgrade"
    /\ loc["a"].status = "downgraded"
    /\ db.panel_genes_archive # <<>>
    /\ db.patient_data # <<>>

\* the search of request p names a key that joins to at least one gene record
SearchMatches(p) ==
    \E i \in DOMAIN db.panel_genes : \E rc \in DOMAIN db.panel :
        /\ db.panel[rc].Panel_ID = db.panel_genes[i].Panel_ID
        /\ db.panel_genes[i].HGNC_ID \in db.genes_info
        /\ CASE loc[p].kind = "panel_id" ->
                   IF loc[p].matches THEN Like(db.panel[rc].Panel_ID, loc[p].panel_id)
                   ELSE db.panel[rc].Panel_ID = loc[p].panel_id
             [] loc[p].kind = "rcode" ->
                   IF loc[p].matches THEN Like(rc, loc[p].rcode)
                   ELSE rc = loc[p].rcode
             [] OTHER -> db.panel_genes[i].HGNC_ID \in Range(loc[p].hgnc_ids)

\* the field of the result that echoes the key the search was given
SearchKey(p) ==
    CASE loc[p].kind = "panel_id" -> [field |-> "Panel_ID", value |-> loc[p].panel_id]
      [] loc[p].kind = "rcode" -> [field |-> "Rcode", value |-> loc[p].rcode]
      [] OTHER -> [field |-> "HGNC_IDs", value |-> loc[p].hgnc_ids]

\* a finished search other than the unimplemented similar-match gene search
SearchDone(p) ==
    /\ pc[p] = "done"
    /\ loc[p].kind \in {"panel_id", "rcode", "hgnc_id"}
    /\ ~(loc[p].kind = "hgnc_id" /\ loc[p].matches)

\* C19: a panel search by panel identifier, test code or gene list that is
\* valid and matches no row returns, without raising, a result made of the
\* queried key and a Message; no result holds both a Message and a record list.
C19_NotFoundMessage ==
    \A p \in Procs : SearchDone(p) =>
        LET out == loc[p].panel_data
            key == SearchKey(p)
        IN /\ "raised" \notin DOMAIN out
           /\ ~SearchMatches(p) =>
                 /\ DOMAIN out = {key.field, "Message"}
                 /\ out[key.field] = key.value
           /\ ~("Message" \in DOMAIN out
                 /\ DOMAIN out \cap {"Associated_Gene_Records", "Panels"} # {})

C19_Witness ==
    \E p \in Procs :
        /\ SearchDone(p)
        /\ ~SearchMatches(p)
        /\ "Message" \in DOMAIN loc[p].panel_data
        /\ db.panel_genes # <<>>

\* C20: a reconciliation goes past update_panels_version only when the UPDATE
\* matched a panel row; one that matched none is reported to the handler, which
\* neither archives nor replaces the panel's contents.
C20_ZeroRowsObserved ==
    \A p \in Procs :
        (loc[p].kind = "patient"
         /\ pc[p] \in {"archive", "get_genes", "delete_genes", "insert_genes"})
            => \E rc \in DOMAIN db.panel :
                  rc = loc[p].rcode /\ SqlEq(db.panel[rc].Panel_ID, loc[p].panel_id)

\* the lookup of request p has returned and the registry had answered it with
\* the very version the panel row held when the lookup began
UpToDate(p) ==
    /\ loc[p].kind = "patient"
    /\ pc[p] = "done"
    /\ loc[p].latest_online_version \in Versions
    /\ loc[p].latest_online_version = get_db_latest_version(loc[p].pre, loc[p].rcode)

\* C21: a lookup that finds the stored version equal to the registry's latest
\* version changes nothing: panel, panel_genes and panel_genes_archive are as
\* they were when it began, and so is get_db_latest_version of the test code.
C21_UpToDateNoOp ==
    \A p \in Procs : UpToDate(p) =>
        /\ db.panel = loc[p].pre.panel
        /\ db.panel_genes = loc[p].pre.panel_genes
        /\ db.panel_genes_archive = loc[p].pre.panel_genes_archive
        /\ get_db_latest_version(db, loc[p].rcode)
              = get_db_latest_version(loc[p].pre, loc[p].rcode)

\* an up-to-date lookup on a panel that earlier reconciliations have rewritten
C21_Witness ==
    \E p \in Procs :
        /\ UpToDate(p)
        /\ loc[p].latest_online_version > 1
        /\ db.panel_genes_archive # <<>>

\* C22: the delta change_gene_contents reports is the delta
\* compare_panel_versions computes from the panel's current mapping to the
\* mapping of the extracted pairs: the same added, removed and changed genes,
\* with the same old and new confidences; the "no changes" message stands for
\* three empty results.
C22_DeltaAgrees ==
    \A p \in Procs :
        (loc[p].kind = "downgrade" /\ pc[p] = "dg_commit") =>
            LET current == current_panel_contents(db, loc[p].panel_id)
                new == RowsToDict(_extract_genes_from_records(loc[p].genes))
                out == compare_panel_versions(current, new)
                changes == loc[p].changes
            IN /\ changes.added = DOMAIN out[1]
               /\ changes.removed = DOMAIN out[2]
               /\ DOMAIN changes.confidence_changed = DOMAIN out[3]
               /\ \A g \in DOMAIN out[3] :
                     /\ changes.confidence_changed[g].old_confidence = out[3][g][1]
                     /\ changes.confidence_changed[g].new_confidence = out[3][g][2]
               /\ (changes.message # None)
                     <=> (DOMAIN out[1] = {} /\ DOMAIN out[2] = {} /\ DOMAIN out[3] = {})

\* a delta with an added gene, a removed gene or a changed confidence
C22_Witness ==
    \E p \in Procs :
        /\ loc[p].kind = "downgrade"
        /\ pc[p] = "dg_commit"
        /\ loc[p].changes.added # {}
        /\ DOMAIN loc[p].changes.confidence_changed # {}

\* C23: the patients returned for a test code include every patient_data row
\* of that code: each row's Patient_ID and Version is an entry of the mapping,
\* rows sharing a date included.
C23_EveryPatientReported ==
    \A p \in Procs :
        (loc[p].kind = "patients" /\ pc[p] = "done") =>
            \A i \in DOMAIN db.patient_data :
                db.patient_data[i].Rcode = loc[p].rcode =>
                    \E dt \in DOMAIN loc[p].patients_list :
                        loc[p].patients_list[dt] =
                            <<db.patient_data[i].Patient_ID, db.patient_data[i].Version>>

\* C24: every patient_data row names a tracked panel: its Rcode has a panel
\* row, its Panel_ID is that row's Panel_ID and its Version is a version of
\* the panel, whatever test code the record request named.
C24_RecordsReferencePanels ==
    \A i \in DOMAIN db.patient_data :
        LET r == db.patient_data[i]
        IN /\ r.Rcode \in DOMAIN db.panel
           /\ r.Panel_ID = db.panel[r.Rcode].Panel_ID
           /\ \E v \in Versions : r.Version = Str(v)

\* what update_panels_version, archive_panel_contents and update_gene_contents
\* leave of tables d for the stored panel, given the registry's version and
\* its gene mapping when the gene request is answered
Canonical(d, latest_version, fetched, answered) ==
    LET archived == archive_panel_contents(
                        update_panels_version(d, TheRcode, latest_version, ThePanel),
                        ThePanel, get_db_latest_version(d, TheRcode))
    IN IF ~answered THEN archived
       ELSE insert_panel_genes(delete_panel_genes(archived, ThePanel), ThePanel,
                               DictItems(fetched, GeneOrder))

\* C25: for a stored panel whose version differs from the registry's, the
\* weekly update leaves the panel's version, contents and archive as the
\* reconciliation's three steps leave them from the same tables and the same
\* registry answer, an already archived version and a failed gene request
\* included.
C25_WeeklyAsReconciliation ==
    \A p \in Procs :
        (/\ loc[p].kind = "weekly"
         /\ pc[p] = "done"
         /\ loc[p].panel_id = ThePanel
         /\ loc[p].latest_online_version # get_db_latest_version(loc[p].pre, TheRcode))
            => LET c == Canonical(loc[p].pre, loc[p].latest_online_version,
                                  loc[p].fetched, loc[p].status = None)
               IN /\ db.panel = c.panel
                  /\ db.panel_genes = c.panel_genes
                  /\ db.panel_genes_archive = c.panel_genes_archive

\* C26: once process_downgrade has committed, the stored version of the test
\* code is the requested version and the panel's contents are exactly the
\* mapping extracted from the payload: entries without a gene identifier left
\* out, a missing confidence level read as 0, an empty delta or not.
C26_DowngradeInstalls ==
    \A p \in Procs :
        (loc[p].kind = "downgrade" /\ pc[p] = "done" /\ loc[p].status = "downgraded") =>
            /\ get_db_latest_version(db, loc[p].rcode) = loc[p].version
            /\ current_panel_contents(db, loc[p].panel_id) =
                  [g \in {e.HGNC_ID : e \in {x \in Range(loc[p].genes) : x.HGNC_ID # None}} |->
                      LET last == CHOOSE i \in DOMAIN loc[p].genes :
                                     /\ loc[p].genes[i].HGNC_ID = g
                                     /\ \A j \in DOMAIN loc[p].genes :
                                           loc[p].genes[j].HGNC_ID = g => j <= i
                      IN IF loc[p].genes[last].Confidence = NoConfidence THEN 0
                         ELSE loc[p].genes[last].Confidence]

\* a committed downgrade whose payload had an entry without a gene identifier,
\* an entry without a confidence level and an empty delta
C26_Witness ==
    \E p \in Procs :
        /\ loc[p].kind = "downgrade"
        /\ pc[p] = "done"
        /\ loc[p].status = "downgraded"
        /\ \E e \in Range(loc[p].genes) : e.HGNC_ID = None
        /\ \E e \in Range(loc[p].genes) : e.HGNC_ID # None /\ e.Confidence = NoConfidence
        /\ loc[p].changes.message # None

\* C27: panel_genes never holds two rows for the same panel and gene, whatever
\* reconciliations and downgrades have run and whatever payloads they were given.
C27_PanelGenesKeyed ==
    \A i, j \in DOMAIN db.panel_genes :
        (/\ db.panel_genes[i].Panel_ID = db.panel_genes[j].Panel_ID
         /\ db.panel_genes[i].HGNC_ID = db.panel_genes[j].HGNC_ID) => i = j

\* C28: a lookup for the stored test code whose registry requests all succeed,
\* with the registry still at the version and the genes it answered with, ends with the
\* panel's contents equal to the registry's gene mapping, also when an earlier
\* reconciliation had stopped after committing the new version.
C28_LaterLookupRepairs ==
    \A p \in Procs :
        (/\ loc[p].kind = "patient"
         /\ pc[p] = "done"
         /\ loc[p].rcode = TheRcode
         /\ loc[p].disclaimer = "Panel comparison up to date"
         /\ loc[p].latest_online_version = registry.version
         /\ loc[p].fetched = registry.genes)
            => current_panel_contents(db, loc[p].panel_id) = registry.genes

\* C29: the lookup that follows a committed downgrade to a version V other than
\* the registry's L, all its registry requests answered, stores L again,
\* replaces the panel's contents with the registry's genes, and archives the
\* downgraded contents under V: each downgraded gene is retrievable under V
\* with its downgraded confidence.
C29_DowngradeReverted ==
    \A p \in Procs :
        Reconciled(p) =>
            LET V == get_db_latest_version(loc[p].pre, TheRcode)
                downgraded == current_panel_contents(loc[p].pre, loc[p].panel_id)
                archived == historic_panel_retrieval(db, loc[p].panel_id, V)
            IN /\ get_db_latest_version(db, TheRcode) = registry.version
               /\ current_panel_contents(db, loc[p].panel_id) = registry.genes
               /\ \A g \in DOMAIN downgraded :
                     g \in DOMAIN archived /\ archived[g] = downgraded[g]

\* C30: for every stored panel with contents, get_gene_list returns exactly the
\* genes that are keys of current_panel_contents, the genes a new registry
\* version introduced included.
C30_GeneListIsMembership ==
    \A rc \in DOMAIN db.panel :
        LET panel_id == db.panel[rc].Panel_ID
            contents == current_panel_contents(db, panel_id)
        IN contents # EmptyDict =>
              /\ "Message" \notin DOMAIN get_panel_data(db, panel_id, FALSE)
              /\ get_gene_list(db, panel_id) = DOMAIN contents

====
